---- MODULE Spec2Model ----
(***************************************************************************)
(* Model of Bill-Generator's app.py: the legitimacy scorer, the response   *)
(* extractor / pipeline of BillOCRParser, and the Flask /process-bill      *)
(* handler with its lazily constructed global parser.                      *)
(***************************************************************************)
EXTENDS Integers, Sequences, FiniteSets, TLC

VARIABLES
    pc,          \* position of the pure-function specifications
    data,        \* the dict handed to calculate_legitimacy_score
    image,       \* image.size as <<width, height>>
    legitimacy,  \* the dict returned by calculate_legitimacy_score
    response,    \* outcome of model.generate_content(...).text
    ex,          \* locals and return value of extract_bill_data
    parser,      \* the module global `parser`
    instances,   \* number of BillOCRParser objects constructed so far
    apiKey,      \* whether GEMINI_API_KEY is set in the environment
    serving,     \* "boot" | "serving" | "aborted"
    th,          \* per request thread: position, request and locals
    disk,        \* the requests whose temporary file is on disk
    begun        \* number of requests accepted so far

vars == <<pc, data, image, legitimacy, response, ex, parser, instances,
          apiKey, serving, th, disk, begun>>

-----------------------------------------------------------------------------
(* Python values as json.loads produces them.  bool is a subclass of int,   *)
(* so True carries the number 1 and False the number 0.                     *)

PyNone == [ty |-> "NoneType", n |-> 0, s |-> ""]
PyBool(b) == [ty |-> "bool", n |-> IF b THEN 1 ELSE 0, s |-> ""]
PyInt(k) == [ty |-> "int", n |-> k, s |-> ""]
PyStr(t) == [ty |-> "str", n |-> 0, s |-> t]
PyEmptyList == [ty |-> "list", n |-> 0, s |-> ""]

\* Python truth value testing (`not x` is its negation)
PyTruth(v) ==
    CASE v.ty = "NoneType" -> FALSE
      [] v.ty \in {"bool", "int"} -> v.n # 0
      [] v.ty = "str" -> v.s # ""
      [] OTHER -> v.n # 0

\* Python `a == b` on these values: numbers (bool included) compare by value
PyEq(a, b) ==
    IF a.ty \in {"bool", "int"} /\ b.ty \in {"bool", "int"}
    THEN a.n = b.n
    ELSE a = b

\* dict.get(key) with the default None
Get(d, k) == IF k \in DOMAIN d THEN d[k] ELSE PyNone

-----------------------------------------------------------------------------
(* BillOCRParser.calculate_legitimacy_score                                 *)

\* faulty variant: the total is looked up under the key without the space
KeyFieldsNoSpace == <<"Bill No", "Date", "TotalAmount">>

\* line 36
KeyFields == <<"Bill No", "Date", "Total Amount">>
MinRes == 500
MissingPenalty == 20
HandwrittenPenalty == 30
ResolutionPenalty == 10
FullScore == 100

\* a reason is the pair of its fixed text and the interpolated field name
HandwrittenReason == <<"Handwritten content detected", "">>
ResolutionReason == <<"Image resolution is too low (below 500x500)", "">>
MissingReason(field) == <<"Missing field: ", field>>

\* the test of the loop body, line 37
FieldMissing(d, field) == ~PyTruth(Get(d, field))

\* the test of line 42
IsHandwrittenTest(d) == PyEq(Get(d, "IsHandwritten"), PyBool(TRUE))

\* the test of line 48
LowResolution(size) == size[1] < MinRes \/ size[2] < MinRes

Max(a, b) == IF a > b THEN a ELSE b
Min(a, b) == IF a < b THEN a ELSE b

\* the for loop of lines 36-39 carried over the first i key fields
RECURSIVE MissingLoop(_, _, _)
MissingLoop(d, i, acc) ==
    IF i > Len(KeyFields) THEN acc
    ELSE IF FieldMissing(d, KeyFields[i])
         THEN MissingLoop(d, i + 1,
                  [score |-> acc.score - MissingPenalty,
                   reasons |-> Append(acc.reasons, MissingReason(KeyFields[i]))])
         ELSE MissingLoop(d, i + 1, acc)

\* faulty variant: width and height tested by two independent checks
ScoreTwoResolutionChecks(d, size) ==
    LET a == MissingLoop(d, 1, [score |-> FullScore, reasons |-> <<>>])
        b == IF IsHandwrittenTest(d)
             THEN [score |-> a.score - HandwrittenPenalty,
                   reasons |-> Append(a.reasons, HandwrittenReason)]
             ELSE a
        c == IF size[1] < MinRes
             THEN [score |-> b.score - ResolutionPenalty,
                   reasons |-> Append(b.reasons, ResolutionReason)]
             ELSE b
        e == IF size[2] < MinRes
             THEN [score |-> c.score - ResolutionPenalty,
                   reasons |-> Append(c.reasons, ResolutionReason)]
             ELSE c
    IN [score |-> Max(0, Min(e.score, FullScore)), reasons |-> e.reasons]

calculate_legitimacy_score(d, size) ==
    LET a == MissingLoop(d, 1, [score |-> FullScore, reasons |-> <<>>])
        b == IF IsHandwrittenTest(d)
             THEN [score |-> a.score - HandwrittenPenalty,
                   reasons |-> Append(a.reasons, HandwrittenReason)]
             ELSE a
        c == IF LowResolution(size)
             THEN [score |-> b.score - ResolutionPenalty,
                   reasons |-> Append(b.reasons, ResolutionReason)]
             ELSE b
    IN [score |-> Max(0, Min(c.score, FullScore)), reasons |-> c.reasons]

-----------------------------------------------------------------------------
(* Inputs of the scorer                                                     *)

ScoreKeys == {"Bill No", "Date", "Total Amount", "IsHandwritten"}
ScoreValues == {PyNone, PyBool(TRUE), PyBool(FALSE), PyInt(0), PyInt(1),
                PyStr(""), PyStr("12345"), PyEmptyList}
Dicts(K, V) == UNION {[D -> V] : D \in SUBSET K}
Dims == {499, 500, 1000}
Sizes == Dims \X Dims

NoLegit == [score |-> -1, reasons |-> <<>>]
NoEx == [keys |-> {}, error |-> "", msg |-> "", raw_response |-> <<>>,
         fields |-> [k \in {} |-> PyNone], score |-> -1, reasons |-> <<>>,
         json_content |-> <<>>]

IdleServer ==
    /\ parser = 0 /\ instances = 0 /\ apiKey = TRUE /\ serving = "boot"
    /\ th = <<>> /\ disk = {} /\ begun = 0

InitScore ==
    /\ pc = "start"
    /\ data \in Dicts(ScoreKeys, ScoreValues)
    /\ image \in Sizes
    /\ legitimacy = NoLegit
    /\ response = [kind |-> "none", msg |-> "", text |-> <<>>]
    /\ ex = NoEx
    /\ IdleServer

Score ==
    /\ pc = "start"
    /\ legitimacy' = calculate_legitimacy_score(data, image)
    /\ pc' = "done"
    /\ UNCHANGED <<data, image, response, ex, parser, instances, apiKey,
                   serving, th, disk, begun>>

NextScore == Score
SpecScore == InitScore /\ [][NextScore]_vars

-----------------------------------------------------------------------------
(* Claims about the scorer                                                  *)

Scored == pc = "done" /\ legitimacy # NoLegit

\* a key field that is absent, null or empty
AbsentNullOrEmpty(d, f) ==
    \/ f \notin DOMAIN d
    \/ d[f] = PyNone
    \/ d[f] = PyStr("")
    \/ d[f] = PyEmptyList

\* IsHandwritten is the boolean true
ExactlyTrue(d) == "IsHandwritten" \in DOMAIN d /\ d["IsHandwritten"] = PyBool(TRUE)

ThreeKeyFields == {"Bill No", "Date", "Total Amount"}
CountMissing(d) == Cardinality({f \in ThreeKeyFields : AbsentNullOrEmpty(d, f)})
Clamp(x) == IF x < 0 THEN 0 ELSE IF x > 100 THEN 100 ELSE x

\* C1: the score is clamp(100 - 20*m - 30*h - 10*r, 0, 100) with m the number of
\* key fields absent, null or empty, h = 1 iff IsHandwritten is true, r = 1 iff a
\* dimension is below 500; it lies in 0..100 and is 100 with no reasons when all
\* key fields are present, the bill is not handwritten and the image is large.
C1_ScoreFormula ==
    Scored =>
        LET m == CountMissing(data)
            h == IF ExactlyTrue(data) THEN 1 ELSE 0
            r == IF image[1] < 500 \/ image[2] < 500 THEN 1 ELSE 0
        IN /\ legitimacy.score = Clamp(100 - 20 * m - 30 * h - 10 * r)
           /\ legitimacy.score \in 0..100
           /\ (m = 0 /\ h = 0 /\ r = 0
                 => legitimacy.score = 100 /\ legitimacy.reasons = <<>>)

Range(q) == {q[i] : i \in 1..Len(q)}

\* C2: the handwriting reason is produced iff IsHandwritten is exactly the
\* boolean true; no other JSON value (false, null, absent, 1, a string) yields it.
C2_HandwritingOnlyOnTrue ==
    Scored => (HandwrittenReason \in Range(legitimacy.reasons) <=> ExactlyTrue(data))

ReasonOrder == <<<<"Missing field: ", "Bill No">>, <<"Missing field: ", "Date">>,
                 <<"Missing field: ", "Total Amount">>,
                 <<"Handwritten content detected", "">>,
                 <<"Image resolution is too low (below 500x500)", "">>>>

\* q is a subsequence of t taken from position j on
RECURSIVE IsSubseqFrom(_, _, _, _)
IsSubseqFrom(q, i, t, j) ==
    IF i > Len(q) THEN TRUE
    ELSE IF j > Len(t) THEN FALSE
    ELSE IF q[i] = t[j] THEN IsSubseqFrom(q, i + 1, t, j + 1)
    ELSE IsSubseqFrom(q, i, t, j + 1)

NoDuplicates(q) == \A i, j \in 1..Len(q) : i # j => q[i] # q[j]

AllFiveFire ==
    /\ \A f \in ThreeKeyFields : AbsentNullOrEmpty(data, f)
    /\ ExactlyTrue(data)
    /\ (image[1] < 500 \/ image[2] < 500)

\* C3: the reasons are a duplicate-free subsequence of the fixed order (missing
\* bill number, date, total amount, handwritten, low resolution); the resolution
\* reason appears once even when both dimensions are small; when all five checks
\* fire the list is the whole order and the score is 0.
C3_ReasonsOrdered ==
    Scored =>
        /\ IsSubseqFrom(legitimacy.reasons, 1, ReasonOrder, 1)
        /\ NoDuplicates(legitimacy.reasons)
        /\ (image[1] < 500 /\ image[2] < 500
              => Cardinality({i \in 1..Len(legitimacy.reasons) :
                     legitimacy.reasons[i] = ReasonOrder[5]}) = 1)
        /\ (AllFiveFire => legitimacy.reasons = ReasonOrder /\ legitimacy.score = 0)

C3_Witness ==
    /\ Scored
    /\ AllFiveFire
    /\ image[1] < 500 /\ image[2] < 500
    /\ Len(legitimacy.reasons) = 5

-----------------------------------------------------------------------------
(* The model's response text.  A text is a sequence of tokens: the braces,  *)
(* the comma and a character of prose are one token each, and a member      *)
(* "key": literal of a JSON object is one token carrying its key and the    *)
(* literal's text.  Positions are Python's, counted from 0.                 *)

Tok(c) == [c |-> c, k |-> "", lit |-> ""]
Member(k, lit) == [c |-> "member", k |-> k, lit |-> lit]
LBrace == Tok("{")
RBrace == Tok("}")
Comma == Tok(",")
Prose == Tok("x")

\* the literal of a value nested deeper than the interpreter's recursion limit
DeepLit == "[[[[...]]]]"

\* str.find: the lowest index of ch, or -1
RECURSIVE FindFrom(_, _, _)
FindFrom(text, ch, i) ==
    IF i > Len(text) THEN -1
    ELSE IF text[i] = ch THEN i - 1
    ELSE FindFrom(text, ch, i + 1)
find(text, ch) == FindFrom(text, ch, 1)

\* str.rfind: the highest index of ch, or -1
RECURSIVE RFindFrom(_, _, _)
RFindFrom(text, ch, i) ==
    IF i < 1 THEN -1
    ELSE IF text[i] = ch THEN i - 1
    ELSE RFindFrom(text, ch, i - 1)
rfind(text, ch) == RFindFrom(text, ch, Len(text))

\* the slice text[a:b] for 0 <= a < b <= len(text)
Slice(text, a, b) == SubSeq(text, a + 1, b)

\* the value json.loads gives a literal
JsonValue(lit) ==
    CASE lit = "null" -> PyNone
      [] lit = "true" -> PyBool(TRUE)
      [] lit = "false" -> PyBool(FALSE)
      [] lit = "0" -> PyInt(0)
      [] lit = "1" -> PyInt(1)
      [] lit = "\"\"" -> PyStr("")
      [] lit = "\"12345\"" -> PyStr("12345")
      [] lit = "\"2024-05-01\"" -> PyStr("2024-05-01")
      [] lit = "\"Rs. 1245.00\"" -> PyStr("Rs. 1245.00")
      [] lit = "\"yes\"" -> PyStr("yes")
      [] OTHER -> PyEmptyList

EmptyDict == [k \in {} |-> PyNone]

\* json.loads on a candidate: the object grammar scanned left to right.
\* st: "first" after the opening brace, "member" after a comma, "after" after a
\* member, "end" after the closing brace.  A later duplicate key wins.
RECURSIVE Scan(_, _, _, _)
Scan(q, i, st, d) ==
    IF i > Len(q)
    THEN IF st = "end" THEN [kind |-> "ok", value |-> d]
         ELSE [kind |-> "JSONDecodeError", value |-> EmptyDict]
    ELSE LET t == q[i] IN
         CASE st \in {"first", "member"} /\ t.c = "member" ->
                 IF t.lit = DeepLit
                 THEN [kind |-> "RecursionError", value |-> EmptyDict]
                 ELSE Scan(q, i + 1, "after",
                           [k \in DOMAIN d \cup {t.k} |->
                               IF k = t.k THEN JsonValue(t.lit) ELSE d[k]])
           [] st = "first" /\ t = RBrace -> Scan(q, i + 1, "end", d)
           [] st = "after" /\ t = Comma -> Scan(q, i + 1, "member", d)
           [] st = "after" /\ t = RBrace -> Scan(q, i + 1, "end", d)
           [] OTHER -> [kind |-> "JSONDecodeError", value |-> EmptyDict]

json_loads(q) ==
    IF Len(q) > 0 /\ q[1] = LBrace
    THEN Scan(q, 2, "first", EmptyDict)
    ELSE [kind |-> "JSONDecodeError", value |-> EmptyDict]

-----------------------------------------------------------------------------
(* BillOCRParser.extract_bill_data                                          *)

LegitKeys == {"legitimacy_score", "legitimacy_reasons"}

\* line 73
JsonStart(text) == find(text, LBrace)

\* faulty variant: the closing brace is left out of the slice
JsonEndNoPlusOne(text) == rfind(text, RBrace)

\* line 74
JsonEnd(text) == rfind(text, RBrace) + 1

\* The returned dict: `keys` are the keys it has.  A Success dict has the keys
\* of the parsed object (`fields` holds their values, the two legitimacy keys
\* excepted) and the two legitimacy keys, whose values are `score`, `reasons`.
Ret(keys, error, msg, raw, fields, score, reasons, content) ==
    [keys |-> keys, error |-> error, msg |-> msg, raw_response |-> raw,
     fields |-> fields, score |-> score, reasons |-> reasons,
     json_content |-> content]

\* the two assignments of lines 80-81 and the return of line 82
Success(bill_data, legit, content) ==
    Ret(DOMAIN bill_data \cup LegitKeys, "", "", <<>>,
        [k \in DOMAIN bill_data \ LegitKeys |-> bill_data[k]],
        legit.score, legit.reasons, content)

BillKeys == {"Bill No", "Date", "Total Amount", "IsHandwritten"}

\* faulty variant: the bill fields the object lacks are filled in with None
ExtractFillingNulls(resp, size) ==
    IF resp.kind = "raise"
    THEN Ret({"error"}, "API call failed: ", resp.msg, <<>>, EmptyDict, -1, <<>>, <<>>)
    ELSE LET response_text == resp.text
             json_start == JsonStart(response_text)
             json_end == JsonEnd(response_text)
         IN IF json_start >= 0 /\ json_end > json_start
            THEN LET json_content == Slice(response_text, json_start, json_end)
                     loaded == json_loads(json_content)
                     filled == [k \in DOMAIN loaded.value \cup BillKeys |->
                                   Get(loaded.value, k)]
                 IN CASE loaded.kind = "ok" ->
                            Success(filled,
                                    calculate_legitimacy_score(filled, size),
                                    json_content)
                      [] loaded.kind = "JSONDecodeError" ->
                            Ret({"error", "raw_response"}, "Failed to parse JSON", "",
                                response_text, EmptyDict, -1, <<>>, json_content)
                      [] OTHER ->
                            Ret({"error"}, "API call failed: ", loaded.kind, <<>>,
                                EmptyDict, -1, <<>>, json_content)
            ELSE Ret({"error", "raw_response"}, "No JSON found", "", response_text,
                     EmptyDict, -1, <<>>, <<>>)

extract_bill_data(resp, size) ==
    IF resp.kind = "raise"
    THEN Ret({"error"}, "API call failed: ", resp.msg, <<>>, EmptyDict, -1, <<>>, <<>>)
    ELSE LET response_text == resp.text
             json_start == JsonStart(response_text)
             json_end == JsonEnd(response_text)
         IN IF json_start >= 0 /\ json_end > json_start
            THEN LET json_content == Slice(response_text, json_start, json_end)
                     loaded == json_loads(json_content)
                 IN CASE loaded.kind = "ok" ->
                            Success(loaded.value,
                                    calculate_legitimacy_score(loaded.value, size),
                                    json_content)
                      [] loaded.kind = "JSONDecodeError" ->
                            Ret({"error", "raw_response"}, "Failed to parse JSON", "",
                                response_text, EmptyDict, -1, <<>>, json_content)
                      [] OTHER ->
                            Ret({"error"}, "API call failed: ", loaded.kind, <<>>,
                                EmptyDict, -1, <<>>, json_content)
            ELSE Ret({"error", "raw_response"}, "No JSON found", "", response_text,
                     EmptyDict, -1, <<>>, <<>>)

-----------------------------------------------------------------------------
(* Inputs of the pipeline                                                   *)

MaxLen == 4
Alphabet == {LBrace, RBrace, Comma, Prose, Member("Bill No", "\"12345\""),
             Member("Date", DeepLit)}
ShortTexts == UNION {[1..n -> Alphabet] : n \in 0..MaxLen}

\* objects the model may answer with: per key, "absent" or a literal
ObjKeys == <<"Bill No", "Date", "Total Amount", "TotalAmount", "IsHandwritten">>
Lits(k) ==
    CASE k = "Bill No" -> {"absent", "null", "\"12345\""}
      [] k = "Date" -> {"absent", "\"\"", "\"2024-05-01\""}
      [] k = "Total Amount" -> {"absent", "0", "\"Rs. 1245.00\""}
      [] k = "TotalAmount" -> {"absent", "\"Rs. 1245.00\""}
      [] OTHER -> {"absent", "false", "true", "1", "\"yes\""}
AllLits == UNION {Lits(ObjKeys[i]) : i \in 1..Len(ObjKeys)}
ObjChoices == {c \in [1..Len(ObjKeys) -> AllLits] :
                  \A i \in 1..Len(ObjKeys) : c[i] \in Lits(ObjKeys[i])}

\* the members chosen by c from key i on, separated by commas
RECURSIVE Members(_, _, _)
Members(c, i, first) ==
    IF i > Len(ObjKeys) THEN <<>>
    ELSE IF c[i] = "absent" THEN Members(c, i + 1, first)
    ELSE (IF first THEN <<>> ELSE <<Comma>>)
         \o <<Member(ObjKeys[i], c[i])>> \o Members(c, i + 1, FALSE)

ObjectText(c) == <<LBrace>> \o Members(c, 1, TRUE) \o <<RBrace>>
Wrappers == {<<>>, <<Prose>>}
ObjectTexts == {pre \o ObjectText(c) \o post :
                   pre \in Wrappers, post \in Wrappers, c \in ObjChoices}

Responses ==
    {[kind |-> "raise", msg |-> "503 unavailable", text |-> <<>>]}
    \cup {[kind |-> "text", msg |-> "", text |-> t] : t \in ShortTexts \cup ObjectTexts}

InitExtract ==
    /\ pc = "start"
    /\ data = EmptyDict
    /\ image \in Sizes
    /\ legitimacy = NoLegit
    /\ response \in Responses
    /\ ex = NoEx
    /\ IdleServer

ExtractBillData ==
    /\ pc = "start"
    /\ ex' = extract_bill_data(response, image)
    /\ pc' = "done"
    /\ UNCHANGED <<data, image, legitimacy, response, parser, instances, apiKey,
                   serving, th, disk, begun>>

NextExtract == ExtractBillData
SpecExtract == InitExtract /\ [][NextExtract]_vars

-----------------------------------------------------------------------------
(* Claims about the pipeline                                                *)

Returned == pc = "done" /\ response.kind \in {"raise", "text"}
TextReturned == Returned /\ response.kind = "text"
IsSuccess == Returned /\ "error" \notin ex.keys

Has(t, ch) == \E i \in 1..Len(t) : t[i] = ch
FirstPos(t, ch) == CHOOSE i \in 1..Len(t) : t[i] = ch /\ \A j \in 1..(i - 1) : t[j] # ch
LastPos(t, ch) == CHOOSE i \in 1..Len(t) : t[i] = ch /\ \A j \in (i + 1)..Len(t) : t[j] # ch

\* no '{', or the last '}' does not occur after the first '{'
NoObjectIn(t) ==
    \/ ~Has(t, LBrace)
    \/ ~Has(t, RBrace)
    \/ LastPos(t, RBrace) < FirstPos(t, LBrace)

\* C4: "No JSON found" is returned iff the text has no '{' or its last '}' does
\* not come after its first '{'; otherwise the candidate handed to the JSON
\* parser is the text from the first '{' through the last '}' inclusive.
C4_OuterBraceSlice ==
    TextReturned =>
        /\ (ex.error = "No JSON found" <=> NoObjectIn(response.text))
        /\ (~NoObjectIn(response.text) =>
              ex.json_content = SubSeq(response.text, FirstPos(response.text, LBrace),
                                       LastPos(response.text, RBrace)))

C4_Witness ==
    /\ IsSuccess
    /\ Len(response.text) >= 4
    /\ response.text[1] = Prose
    /\ response.text[Len(response.text)] = Prose
    /\ ex.json_content = SubSeq(response.text, 2, Len(response.text) - 1)

\* C5: the call returns the Success variant, or "Failed to parse JSON" / "No JSON
\* found" with raw_response equal to the whole model text, or "API call failed"
\* without raw_response; the variant without raw_response is returned exactly
\* when the failure happened before any model response text existed.
C5_FailureVariants ==
    Returned =>
        /\ \/ IsSuccess
           \/ /\ ex.error \in {"Failed to parse JSON", "No JSON found"}
              /\ ex.keys = {"error", "raw_response"}
              /\ ex.raw_response = response.text
           \/ /\ ex.error = "API call failed: "
              /\ ex.keys = {"error"}
        /\ (ex.keys = {"error"} <=> response.kind = "raise")

\* the keys of the members of a candidate
MemberKeys(q) == {q[i].k : i \in {j \in 1..Len(q) : q[j].c = "member"}}

\* C6 as stated: every Success variant has all four bill field keys, a key the
\* model's object lacked appearing with the value null.
C6_AllKeysPresent ==
    IsSuccess =>
        \A k \in BillKeys :
            /\ k \in ex.keys
            /\ (k \notin MemberKeys(ex.json_content) => ex.fields[k] = PyNone)

\* C6 amended: a Success variant has a bill field key exactly when the model's
\* object had it, with the value parsed from the object; a key the object lacked
\* is omitted, not set to null.
C6_KeysAsInObject ==
    IsSuccess =>
        /\ \A k \in BillKeys : k \in ex.keys <=> k \in MemberKeys(ex.json_content)
        /\ DOMAIN ex.fields = MemberKeys(ex.json_content) \ LegitKeys
        /\ ex.keys = MemberKeys(ex.json_content) \cup LegitKeys

C6_Witness ==
    /\ IsSuccess
    /\ "Bill No" \in ex.keys
    /\ "Date" \notin ex.keys
    /\ "Date" \notin MemberKeys(ex.json_content)

ExampleAsStated ==
    <<LBrace, Member("Bill No", "\"12345\""), Comma, Member("Date", "\"2024-05-01\""),
      Comma, Member("TotalAmount", "\"Rs. 1245.00\""), Comma,
      Member("IsHandwritten", "false"), RBrace>>

ExampleWithSpace ==
    <<LBrace, Member("Bill No", "\"12345\""), Comma, Member("Date", "\"2024-05-01\""),
      Comma, Member("Total Amount", "\"Rs. 1245.00\""), Comma,
      Member("IsHandwritten", "false"), RBrace>>

ExampleFields(totalKey) ==
    [k \in {"Bill No", "Date", totalKey, "IsHandwritten"} |->
        CASE k = "Bill No" -> PyStr("12345")
          [] k = "Date" -> PyStr("2024-05-01")
          [] k = "IsHandwritten" -> PyBool(FALSE)
          [] OTHER -> PyStr("Rs. 1245.00")]

\* C7 as stated: for a 1000x1000 image and the object with the keys Bill No,
\* Date, TotalAmount, IsHandwritten the result is the Success variant with
\* those four fields, legitimacy_score 100 and legitimacy_reasons [].
C7_ExampleScores100 ==
    (Returned /\ response.text = ExampleAsStated /\ image = <<1000, 1000>>) =>
        /\ IsSuccess
        /\ ex.fields = ExampleFields("TotalAmount")
        /\ ex.score = 100
        /\ ex.reasons = <<>>

\* C7 amended: the result is score 100 with no reasons when the total is sent
\* under the key "Total Amount"; under the key "TotalAmount" the four fields are
\* returned with score 80 and the one reason "Missing field: Total Amount".
C7_ExampleWithSpaceScores100 ==
    /\ (Returned /\ response.text = ExampleWithSpace /\ image = <<1000, 1000>>) =>
          /\ IsSuccess
          /\ ex.fields = ExampleFields("Total Amount")
          /\ ex.score = 100
          /\ ex.reasons = <<>>
    /\ (Returned /\ response.text = ExampleAsStated /\ image = <<1000, 1000>>) =>
          /\ IsSuccess
          /\ ex.fields = ExampleFields("TotalAmount")
          /\ ex.score = 80
          /\ ex.reasons = <<<<"Missing field: ", "Total Amount">>>>

C7_Witness ==
    /\ Returned
    /\ response.text = ExampleWithSpace
    /\ image = <<1000, 1000>>
    /\ ex.score = 100

-----------------------------------------------------------------------------
(* The Flask application: the global parser, get_parser and process_bill.   *)
(* Requests are served by threads; a thread's steps interleave with the     *)
(* others' at the read and the write of the global and at blocking calls.   *)

NumThreads == 2
MaxRequests == 3
Threads == 1..NumThreads

None == 0

Filenames == {<<>>,
              <<"a", ".", "p", "n", "g">>,
              <<"a", ".", "P", "N", "G">>,
              <<"a", ".", "j", "p", "e", "g">>,
              <<"a", ".", "t", "x", "t">>,
              <<"p", "n", "g">>}

\* str.lower on one character
LowerChar(ch) ==
    CASE ch = "P" -> "p"
      [] ch = "N" -> "n"
      [] ch = "G" -> "g"
      [] OTHER -> ch
lower(w) == [i \in 1..Len(w) |-> LowerChar(w[i])]

\* str.endswith with one suffix
endswith(w, suf) ==
    /\ Len(w) >= Len(suf)
    /\ SubSeq(w, Len(w) - Len(suf) + 1, Len(w)) = suf

\* the tuple of line 115
AllowedSuffixes == {<<".", "j", "p", "g">>, <<".", "j", "p", "e", "g">>,
                    <<".", "p", "n", "g">>}

\* the test of line 115
AllowedFile(filename) == \E suf \in AllowedSuffixes : endswith(lower(filename), suf)

IdleThread ==
    [pc |-> "idle", id |-> 0, hasFile |-> FALSE, filename |-> <<>>,
     cur |-> None, built |-> FALSE, tmp |-> FALSE, unlinked |-> FALSE,
     result |-> NoEx, status |-> 0, body |-> "none"]

\* the responses of the model a request may meet
ServerResponses ==
    {[kind |-> "raise", msg |-> "503 unavailable", text |-> <<>>],
     [kind |-> "text", msg |-> "", text |-> <<Prose>>],
     [kind |-> "text", msg |-> "", text |-> <<LBrace, Member("Bill No", "\"12345\""), RBrace>>]}

InitServer ==
    /\ pc = "server"
    /\ data = EmptyDict
    /\ image = <<1000, 1000>>
    /\ legitimacy = NoLegit
    /\ response = [kind |-> "none", msg |-> "", text |-> <<>>]
    /\ ex = NoEx
    /\ parser = None
    /\ instances = 0
    /\ apiKey \in BOOLEAN
    /\ serving = "boot"
    /\ th = [t \in Threads |-> IdleThread]
    /\ disk = {}
    /\ begun = 0

ServerUnchanged == UNCHANGED <<pc, data, image, legitimacy, response, ex, apiKey>>

\* python app.py: the parser is built before app.run, or the start is aborted
MainStart ==
    /\ serving = "boot"
    /\ IF apiKey
       THEN /\ instances' = instances + 1
            /\ parser' = instances + 1
            /\ serving' = "serving"
       ELSE /\ serving' = "aborted"
            /\ UNCHANGED <<parser, instances>>
    /\ UNCHANGED <<th, disk, begun>>
    /\ ServerUnchanged

\* the module imported by a WSGI server: parser stays None until a request
WsgiStart ==
    /\ serving = "boot"
    /\ serving' = "serving"
    /\ UNCHANGED <<parser, instances, th, disk, begun>>
    /\ ServerUnchanged

\* a POST /process-bill reaches the handler on thread t
Accept(t) ==
    /\ serving = "serving"
    /\ th[t].pc = "idle"
    /\ begun < MaxRequests
    /\ begun' = begun + 1
    /\ \E hf \in BOOLEAN, fn \in Filenames :
          /\ (~hf => fn = <<>>)
          /\ th' = [th EXCEPT ![t] = [IdleThread EXCEPT !.pc = "get_parser",
                                         !.id = begun + 1,
                                         !.hasFile = hf, !.filename = fn]]
    /\ UNCHANGED <<parser, instances, serving, disk>>
    /\ ServerUnchanged

\* get_parser, line 96: the read of the global
GetParserTest(t) ==
    /\ th[t].pc = "get_parser"
    /\ IF parser = None
       THEN th' = [th EXCEPT ![t].pc = "construct"]
       ELSE th' = [th EXCEPT ![t].pc = "validate", ![t].cur = parser]
    /\ UNCHANGED <<parser, instances, serving, disk, begun>>
    /\ ServerUnchanged

\* get_parser, line 97: BillOCRParser() and the write of the global; a missing
\* key raises ValueError, which the handler answers with 500
Construct(t) ==
    /\ th[t].pc = "construct"
    /\ IF apiKey
       THEN /\ instances' = instances + 1
            /\ parser' = instances + 1
            /\ th' = [th EXCEPT ![t].pc = "validate", ![t].cur = instances + 1,
                                ![t].built = TRUE]
       ELSE /\ th' = [th EXCEPT ![t].pc = "responded", ![t].built = TRUE,
                                ![t].status = 500,
                                ![t].body = "Gemini API key is required."]
            /\ UNCHANGED <<parser, instances>>
    /\ UNCHANGED <<serving, disk, begun>>
    /\ ServerUnchanged

\* lines 108-120: the three rejections, then the temporary file, file.save and
\* Image.open; an exception of either leaves the with block for line 131
ValidateAndSave(t) ==
    /\ th[t].pc = "validate"
    /\ \/ /\ ~th[t].hasFile
          /\ th' = [th EXCEPT ![t].pc = "responded", ![t].status = 400,
                              ![t].body = "No file provided"]
          /\ UNCHANGED disk
       \/ /\ th[t].hasFile /\ th[t].filename = <<>>
          /\ th' = [th EXCEPT ![t].pc = "responded", ![t].status = 400,
                              ![t].body = "Empty file name"]
          /\ UNCHANGED disk
       \/ /\ th[t].hasFile /\ th[t].filename # <<>> /\ ~AllowedFile(th[t].filename)
          /\ th' = [th EXCEPT ![t].pc = "responded", ![t].status = 400,
                              ![t].body = "Only JPG and PNG supported"]
          /\ UNCHANGED disk
       \/ /\ th[t].hasFile /\ th[t].filename # <<>> /\ AllowedFile(th[t].filename)
          /\ disk' = disk \cup {th[t].id}
          /\ \E outcome \in {"ok", "save raises", "open raises"} :
                IF outcome = "ok"
                THEN th' = [th EXCEPT ![t].pc = "extract", ![t].tmp = TRUE]
                ELSE th' = [th EXCEPT ![t].pc = "responded", ![t].tmp = TRUE,
                                      ![t].status = 500, ![t].body = outcome]
    /\ UNCHANGED <<parser, instances, serving, begun>>
    /\ ServerUnchanged

\* line 122: the blocking call of the pipeline
Extract(t) ==
    /\ th[t].pc = "extract"
    /\ \E resp \in ServerResponses :
          th' = [th EXCEPT ![t].pc = "unlink",
                           ![t].result = extract_bill_data(resp, image)]
    /\ UNCHANGED <<parser, instances, serving, disk, begun>>
    /\ ServerUnchanged

\* lines 124-129: os.unlink, whose failure is only logged, and the 200 answer
Unlink(t) ==
    /\ th[t].pc = "unlink"
    /\ \E deleted \in BOOLEAN :
          disk' = IF deleted THEN disk \ {th[t].id} ELSE disk
    /\ th' = [th EXCEPT ![t].pc = "responded", ![t].unlinked = TRUE,
                        ![t].status = 200, ![t].body = "result"]
    /\ UNCHANGED <<parser, instances, serving, begun>>
    /\ ServerUnchanged

\* the response is sent
Finish(t) ==
    /\ th[t].pc = "responded"
    /\ th' = [th EXCEPT ![t] = IdleThread]
    /\ UNCHANGED <<parser, instances, serving, disk, begun>>
    /\ ServerUnchanged

NextServer ==
    \/ MainStart
    \/ WsgiStart
    \/ \E t \in Threads : Accept(t)
    \/ \E t \in Threads : GetParserTest(t)
    \/ \E t \in Threads : Construct(t)
    \/ \E t \in Threads : ValidateAndSave(t)
    \/ \E t \in Threads : Extract(t)
    \/ \E t \in Threads : Unlink(t)
    \/ \E t \in Threads : Finish(t)

SpecServer == InitServer /\ [][NextServer]_vars

-----------------------------------------------------------------------------
(* Claims about the application                                             *)

\* the part of a filename after its last dot, lower-cased; <<>> without a dot
Extension(w) ==
    IF \E i \in 1..Len(w) : w[i] = "."
    THEN LET d == CHOOSE i \in 1..Len(w) : w[i] = "." /\ \A j \in (i + 1)..Len(w) : w[j] # "."
         IN lower(SubSeq(w, d + 1, Len(w)))
    ELSE <<>>

InvalidUpload(r) ==
    \/ ~r.hasFile
    \/ r.filename = <<>>
    \/ Extension(r.filename) \notin {<<"j", "p", "g">>, <<"j", "p", "e", "g">>, <<"p", "n", "g">>}

\* C8: a request without a file field, with an empty filename or with an
\* extension other than .jpg/.jpeg/.png is answered 400 in every process state,
\* a missing credential included, before the parser is invoked.
C8_InvalidUploadIs400 ==
    \A t \in Threads :
        (th[t].pc = "responded" /\ InvalidUpload(th[t]))
            => (th[t].status = 400 /\ ~th[t].built)

\* C9: under any interleaving of requests the global parser is constructed at
\* most once, and every request uses that one instance.
C9_ParserBuiltOnce ==
    /\ instances <= 1
    /\ \A t \in Threads : th[t].cur # None => th[t].cur = parser

\* C10: every request that created a temporary file has attempted to delete it
\* by the time it answers, also when saving or opening the image raised.
C10_TempFileDeleteAttempted ==
    \A t \in Threads :
        (th[t].pc = "responded" /\ th[t].tmp) => th[t].unlinked

====
